---- MODULE Spec2Model ----
(***************************************************************************)
(* The crawl-and-diff pipeline of filekeepers-book-management              *)
(* (src/scraper/scraper.py, src/scraper/utils.py) as a state machine.      *)
(*                                                                         *)
(* One run of BookScraper.scrape_all_books is modelled over a small site:  *)
(* the main coroutine, one scrape_category task per category and one       *)
(* process_book_page task per listed item.  Every await of the code is a   *)
(* step boundary.  A store operation takes effect in the step that issues  *)
(* it; the code that follows its await runs in the task's next step, so a  *)
(* task can be cancelled between the effect of an operation and the code   *)
(* after it.                                                               *)
(*                                                                         *)
(* gather starts its tasks in one turn of the event loop, so the first      *)
(* synchronous segment of each new task (up to its first await) belongs to *)
(* the step that gathers them.  The store is as an earlier run at time 0   *)
(* left it; _ensure_resume has no caller, so scraped_links starts empty    *)
(* and session_log is never cleared.                                       *)
(*                                                                         *)
(* Spec and FairSpec run the crawl over the root index that links c1 and  *)
(* c2 with CHANGELOG_LIMIT not set (FairSpec: under fairness, over the     *)
(* sites where u2 is unchanged or does not parse); SpecPaged runs it over  *)
(* the root index that links the three-page category c3, under several     *)
(* settings of the limit and of --resume; SpecDetect and SpecDiff call     *)
(* process_book_page on one url again and again; SpecFetch is one call of  *)
(* fetch_page, attempt by attempt; SpecApi is the API server's key check   *)
(* and key update, two requests at a time; SpecCyclic runs the crawl over  *)
(* the root index that links c4, whose pagination is a cycle; SpecEmail is *)
(* send_email_alert called again and again; SpecDict is one LimitedDict   *)
(* under any sequence of assignments.                                      *)
(*                                                                         *)
(* Of the ten parsed fields of BookBase the model keeps url, title,        *)
(* price_incl_tax and availability; title stands for the fields that are   *)
(* neither a price nor the availability.                                   *)
(***************************************************************************)
EXTENDS Integers, Sequences, FiniteSets, TLC

VARIABLES
    site,           \* url -> the body the site serves for it during this run
    books,          \* db.books, in insertion order
    change_log,     \* db.change_log, in insertion order
    session_log,    \* db.session_log, in insertion order
    reports,        \* db.reports, in insertion order
    scraped_links,  \* BookScraper.scraped_links
    clock,          \* the next value of datetime.now()
    main,           \* the scrape_all_books coroutine and its locals
    cat,            \* category the root index links -> its scrape_category task
    item,           \* slot of this run -> its process_book_page task
    failed_fetches, \* how many calls of fetch_page gave up in this run
    fetch,          \* one call of fetch_page under exponential_backoff
    api_keys,       \* db.api_keys, in insertion order
    request,        \* request -> the API request in flight: its position and locals
    env,            \* the process environment config.py reads, and the --resume
                    \* flag of the command line (BookScraper.resume)
    invocations,    \* the calls of process_book_page made one after another
    MAX_EMAILS,     \* the module counter MAX_EMAILS of scraper/utils.py
    alert,          \* the call of send_email_alert in progress, and the calls made
    ld              \* a LimitedDict: its limit and its entries in insertion order

vars == <<site, books, change_log, session_log, reports, scraped_links,
          clock, main, cat, item, failed_fetches, fetch, env, invocations,
          api_keys, request, MAX_EMAILS, alert, ld>>

----------------------------------------------------------------------------
(* Values *)

None == "None"

\* The bodies an item URL can serve.  b1 is the body an earlier run stored;
\* b2..b5 change a parsed field, b6 changes only markup, b7 does not parse,
\* b8 is a 2xx response with the empty text.
Html == [
    b1 |-> [title |-> "t1", price_incl_tax |-> 10, availability |-> 5, markup |-> 0, wellformed |-> TRUE,  text |-> "html"],
    b2 |-> [title |-> "t1", price_incl_tax |-> 12, availability |-> 5, markup |-> 0, wellformed |-> TRUE,  text |-> "html"],
    b3 |-> [title |-> "t1", price_incl_tax |-> 10, availability |-> 3, markup |-> 0, wellformed |-> TRUE,  text |-> "html"],
    b4 |-> [title |-> "t1", price_incl_tax |-> 12, availability |-> 3, markup |-> 0, wellformed |-> TRUE,  text |-> "html"],
    b5 |-> [title |-> "t2", price_incl_tax |-> 10, availability |-> 5, markup |-> 0, wellformed |-> TRUE,  text |-> "html"],
    b6 |-> [title |-> "t1", price_incl_tax |-> 10, availability |-> 5, markup |-> 1, wellformed |-> TRUE,  text |-> "html"],
    b7 |-> [title |-> "",   price_incl_tax |-> 0,  availability |-> 0, markup |-> 0, wellformed |-> FALSE, text |-> "html"],
    b8 |-> [title |-> "",   price_incl_tax |-> 0,  availability |-> 0, markup |-> 0, wellformed |-> FALSE, text |-> ""] ]

Bodies == DOMAIN Html
PriorBody == "b1"

\* The bodies each url may serve in the run: u1 any of them; u2 the stored
\* body, a changed one or one that does not parse.
Served == [u1 |-> Bodies, u2 |-> {"b1", "b2", "b7"}]

\* The site: the root index links categories; a category is a chain of
\* listing pages; a listing page links items.  Two root indexes are
\* considered.  One links c1 and c2: u1 is linked from both categories, u2
\* from both pages of c1.  The other links c3 alone, a chain of three
\* listing pages whose first page links u1 twice.
URLs == {"u1", "u2"}
Categories == {"c1", "c2"}
PagedCategories == {"c3"}
\* c4: the next link of its second page M points back to its first page L.
CyclicCategories == {"c4"}
FirstPage == [c1 |-> "A", c2 |-> "P", c3 |-> "X", c4 |-> "L"]
ListingPages == {"A", "B", "P", "X", "Y", "Z", "L", "M"}
BookLinks == [A |-> <<"u1", "u2">>, B |-> <<"u2">>, P |-> <<"u1">>,
              X |-> <<"u1", "u1">>, Y |-> <<"u2">>, Z |-> <<"u1">>,
              L |-> <<"u1", "u1">>, M |-> <<"u2">>]
NextPage == [A |-> "B", B |-> None, P |-> None, X |-> "Y", Y |-> "Z", Z |-> None,
             L |-> "M", M |-> "L"]

CategoryOfPage == [A |-> "c1", B |-> "c1", P |-> "c2",
                   X |-> "c3", Y |-> "c3", Z |-> "c3", L |-> "c4", M |-> "c4"]

\* The traversal of a category is followed for at most this many listing
\* pages.
MaxPages == 4

Chain == [c1 |-> <<"A", "B">>, c2 |-> <<"P">>, c3 |-> <<"X", "Y", "Z">>]

\* The categories the root index of this run links.
category_links == DOMAIN cat

\* One item task per link of a listing page: those of the categories in
\* cats, and those of this run.
SlotsIn(cats) ==
    {s \in ListingPages \X (1..2) :
        s[2] <= Len(BookLinks[s[1]]) /\ CategoryOfPage[s[1]] \in cats}
Slots == DOMAIN item
SlotsOf(p) == {s \in Slots : s[1] = p}
UrlOf(s) == BookLinks[s[1]][s[2]]

PriorSession == "s0"
session_id == "s1"

\* At most this many calls of fetch_page exhaust their attempts in one run.
MaxFailedFetches == 3

----------------------------------------------------------------------------
(* Fetcher: fetch_page under exponential_backoff *)

\* What one HTTP attempt can do: a 2xx response, a timeout, a transport
\* error, a non-2xx status.
Outcomes == {"ok", "timeout", "error", "status"}

retries == 3
base_delay == 1
retry_on_None == TRUE
raise_on_failure_mut == TRUE
raise_on_failure == FALSE

\* What the attempts of one call do, in the runs of the crawl: the first n
\* fail, the others succeed (SpecFetch tells the kinds of failure apart).
FirstFail(n) == [i \in 1..retries |-> IF i <= n THEN "timeout" ELSE "ok"]
AttemptSeqs == {FirstFail(n) : n \in 0..retries}

\* The undecorated fetch_page: the text of a 2xx response, None otherwise.
fetch_page_once(outcome, body) == IF outcome = "ok" THEN body ELSE None

\* `if not html`: None and the empty text are both falsy.
not_html(html) == html = None \/ Html[html].text = ""

\* not_html for a listing or index page, whose text is never empty here.
not_page(html) == html = None

\* The decorated fetch_page as one function of what the attempts do:
\* "raise" when the wrapper raises.
RECURSIVE wrapper(_, _, _)
wrapper(attempt, outs, body) ==
    IF attempt >= retries
    THEN IF raise_on_failure THEN "raise" ELSE None
    ELSE LET return_value == fetch_page_once(outs[attempt + 1], body) IN
         IF return_value = None /\ retry_on_None
         THEN wrapper(attempt + 1, outs, body)
         ELSE return_value

fetch_page(outs, body) == wrapper(0, outs, body)

\* The attempts a call may see while the run has failed calls left.
AttemptsLeft == IF failed_fetches < MaxFailedFetches THEN AttemptSeqs
                ELSE AttemptSeqs \ {FirstFail(retries)}
Failed(html) == IF html = None THEN 1 ELSE 0

FetchIdle == [pc |-> "idle", body |-> None, attempt |-> 0, calls |-> <<>>,
              delays |-> <<>>, ret |-> None]

\* One call of the decorated fetch_page, attempt by attempt (SpecFetch).
InitFetchCall ==
    \E b \in Bodies :
        fetch = [pc |-> "call", body |-> b, attempt |-> 0, calls |-> <<>>,
                 delays |-> <<>>, ret |-> None]

\* The wait after failed attempt number `attempt` (counted from 0).
delay_mut(attempt) == base_delay
delay(attempt) == base_delay * 2 ^ attempt

\* One pass through the body of the wrapper's for loop, up to its next await
\* or to the wrapper's return.
FetchAttempt ==
    /\ fetch.pc = "call"
    /\ fetch.attempt < retries
    /\ \E o \in Outcomes :
        LET return_value == fetch_page_once(o, fetch.body)
            called == [fetch EXCEPT !.calls = Append(@, o)]
        IN  IF return_value = None /\ retry_on_None
            THEN IF fetch.attempt < retries - 1
                 THEN fetch' = [called EXCEPT !.pc = "sleep",
                                   !.delays = Append(@, delay(fetch.attempt))]
                 ELSE IF raise_on_failure
                      THEN fetch' = [called EXCEPT !.pc = "raised", !.attempt = @ + 1]
                      ELSE fetch' = [called EXCEPT !.pc = "returned", !.attempt = @ + 1,
                                        !.ret = None]
            ELSE fetch' = [called EXCEPT !.pc = "returned", !.ret = return_value]
    /\ UNCHANGED <<MAX_EMAILS, alert, ld, api_keys, request, env, invocations, site, books, change_log, session_log, reports, scraped_links,
                   clock, main, cat, item, failed_fetches>>

\* asyncio.sleep(delay) is over: the next pass of the loop.
FetchWake ==
    /\ fetch.pc = "sleep"
    /\ fetch' = [fetch EXCEPT !.pc = "call", !.attempt = @ + 1]
    /\ UNCHANGED <<MAX_EMAILS, alert, ld, api_keys, request, env, invocations, site, books, change_log, session_log, reports, scraped_links,
                   clock, main, cat, item, failed_fetches>>

----------------------------------------------------------------------------
(* Page parser and change detector *)

sha256(html) == <<"sha256", html>>

\* parse_book_page: <<the parsed record>> (book_data.model_dump()), or <<>>
\* for the None it returns when an extraction raises.
parse_book_page_mut(html, url) ==
    <<[url |-> url, title |-> Html[html].title,
       price_incl_tax |-> Html[html].price_incl_tax,
       availability |-> Html[html].availability]>>
parse_book_page(html, url) ==
    IF Html[html].wellformed
    THEN <<[url |-> url, title |-> Html[html].title,
            price_incl_tax |-> Html[html].price_incl_tax,
            availability |-> Html[html].availability]>>
    ELSE <<>>

\* The short circuit on an equal content hash.
is_unchanged_mut(existing_book, content_hash) == FALSE
is_unchanged(existing_book, content_hash) ==
    existing_book # <<>> /\ existing_book[1].content_hash = content_hash

\* k -> (old, new) over the parsed fields that the stored record has with
\* another value.
changed_fields_mut(existing_book, book_dict) ==
    [k \in {k \in DOMAIN book_dict : k \in DOMAIN existing_book /\ k # "url"}
        |-> <<existing_book[k], book_dict[k]>>]
changed_fields_get(existing_book, book_dict) ==
    [k \in {k \in DOMAIN book_dict :
                k \notin DOMAIN existing_book \/ existing_book[k] # book_dict[k]}
        |-> <<IF k \in DOMAIN existing_book THEN existing_book[k] ELSE book_dict[k],
              book_dict[k]>>]
changed_fields_dump(existing_book, book_dict) ==
    [k \in {k \in DOMAIN book_dict \cup {"content_hash"} :
                k \in DOMAIN existing_book
                /\ (k \in DOMAIN book_dict => existing_book[k] # book_dict[k])}
        |-> <<existing_book[k], IF k \in DOMAIN book_dict THEN book_dict[k] ELSE existing_book[k]>>]
changed_fields(existing_book, book_dict) ==
    [k \in {k \in DOMAIN book_dict :
                k \in DOMAIN existing_book /\ existing_book[k] # book_dict[k]}
        |-> <<existing_book[k], book_dict[k]>>]

\* BookInDB(...).model_dump(), as the store keeps it.
book_in_db_mut(book_dict, content_hash, html, now) ==
    [url |-> book_dict.url, title |-> book_dict.title,
     price_incl_tax |-> book_dict.price_incl_tax,
     availability |-> book_dict.availability,
     content_hash |-> content_hash, raw_html |-> html,
     first_seen |-> now, last_updated |-> 0]
book_in_db(book_dict, content_hash, html, now) ==
    [url |-> book_dict.url, title |-> book_dict.title,
     price_incl_tax |-> book_dict.price_incl_tax,
     availability |-> book_dict.availability,
     content_hash |-> content_hash, raw_html |-> html,
     first_seen |-> now, last_updated |-> now]

----------------------------------------------------------------------------
(* The document store *)

WithId(doc, id) ==
    [_id |-> id, url |-> doc.url, title |-> doc.title,
     price_incl_tax |-> doc.price_incl_tax, availability |-> doc.availability,
     content_hash |-> doc.content_hash, raw_html |-> doc.raw_html,
     first_seen |-> doc.first_seen, last_updated |-> doc.last_updated]

\* db.books.find_one({"url": url}): <<>> when there is none.
find_one(bks, url) ==
    IF \E i \in 1..Len(bks) : bks[i].url = url
    THEN <<bks[CHOOSE i \in 1..Len(bks) :
                /\ bks[i].url = url
                /\ \A j \in 1..Len(bks) : bks[j].url = url => i <= j]>>
    ELSE <<>>

\* The unique index on books.url rejects a second document with the url.
duplicate_key_mut(bks, url) == FALSE
duplicate_key(bks, url) == \E i \in 1..Len(bks) : bks[i].url = url

insert_one_mut(bks, doc) ==
    Append(Append(bks, WithId(doc, Len(bks) + 1)), WithId(doc, Len(bks) + 2))

\* db.books.insert_one(doc): the store assigns _id.
insert_one(bks, doc) == Append(bks, WithId(doc, Len(bks) + 1))

\* db.books.update_one({"_id": id}, {"$set": doc}).
update_one_mut(bks, id, doc) ==
    [i \in 1..Len(bks) |->
        IF bks[i]._id = id
        THEN WithId([doc EXCEPT !.raw_html = bks[i].raw_html], id)
        ELSE bks[i]]
update_one_lost(bks, id, doc) == bks
update_one(bks, id, doc) ==
    [i \in 1..Len(bks) |-> IF bks[i]._id = id THEN WithId(doc, id) ELSE bks[i]]

\* db.change_log.insert_one(doc).
insert_change_mut(log, doc) == <<doc>>
insert_change(log, doc) == Append(log, doc)

----------------------------------------------------------------------------
(* The API's key check and PATCH /keys/{target_api}                        *)
(* (src/shared/api_deps.py, src/API/v1/keys.py).  The server handles       *)
(* requests concurrently; every await of a handler is a step boundary.     *)
(* Requests stay within their rate limits: the counters of slowapi are not *)
(* part of the model.                                                      *)

\* The texts clients send as X-API-KEY, by what uuid.UUID reads of a text:
\* the number of characters left when the hyphens are removed, and whether
\* all of them are hex digits.
ApiKeyText == [
    k_admin   |-> [chars |-> 32, hex |-> TRUE],    \* 11111111-1111-1111-1111-111111111111
    k_read    |-> [chars |-> 32, hex |-> TRUE],    \* 22222222-2222-2222-2222-222222222222
    k_off     |-> [chars |-> 32, hex |-> TRUE],
    k_unknown |-> [chars |-> 32, hex |-> TRUE],
    k_loose   |-> [chars |-> 32, hex |-> TRUE],    \* 00000000-0000-0000-00000000-00000000
    k_short   |-> [chars |-> 9,  hex |-> TRUE],    \* 111-111-111
    k_word    |-> [chars |-> 32, hex |-> FALSE] ]

\* The header of a request: absent, empty, or one of the texts.
ApiHeaders == {None, ""} \cup DOMAIN ApiKeyText

\* uuid.UUID(api_key, version=4) raises ValueError.
ValueError(api_key) == ApiKeyText[api_key].chars # 32 \/ ~ApiKeyText[api_key].hex

\* db.api_keys as the server finds it: an admin key, a read-only key and a
\* deactivated key.
StoredKeys == <<
    [_id |-> 1, key |-> "k_admin", name |-> "Admin Test Key", rate_limit |-> "1000/hour",
     scopes |-> {"admin", "read", "write"}, is_active |-> TRUE, last_used |-> <<>>],
    [_id |-> 2, key |-> "k_read", name |-> "Limited Test Key", rate_limit |-> "10/hour",
     scopes |-> {"read"}, is_active |-> TRUE, last_used |-> <<>>],
    [_id |-> 3, key |-> "k_off", name |-> "Test Key", rate_limit |-> "100/hour",
     scopes |-> {"admin", "read", "write"}, is_active |-> FALSE, last_used |-> <<>> ] >>

\* The path parameters and the bodies (model_dump(exclude_unset=True)) of the
\* PATCH requests considered; <<>> is the body {}.
Targets == {"k_admin", "k_off", "k_unknown"}
Updates == { <<>>, [name |-> "Updated Name"], [name |-> "Test Key"],
             [is_active |-> TRUE], [is_active |-> FALSE], [scopes |-> {"read"}] }

\* The requests the server handles: none while only the crawler runs.
Requests == DOMAIN request
RequestIdle == [pc |-> "idle", api_key |-> None, key_info |-> <<>>, accepted |-> FALSE,
                target_api |-> None, updates |-> <<>>, modified_count |-> 0,
                status_code |-> 0, detail |-> None, body |-> <<>>]

\* The API server is not running.
NoApi ==
    /\ api_keys = <<>>
    /\ request = <<>>

\* raise HTTPException(status_code, detail).
HTTPException(req, status_code, detail) ==
    [req EXCEPT !.pc = "responded", !.status_code = status_code, !.detail = detail]

\* get_api_key: <<the stored key>> for find_one({"key": api_key}), <<>> for None.
get_api_key(keys, api_key) ==
    LET Hit(k) == k.key = api_key
    IN  IF SelectSeq(keys, Hit) = <<>> THEN <<>> ELSE <<SelectSeq(keys, Hit)[1]>>

\* `not key_info or not key_info.is_active`.
invalid_or_inactive_mut(key_info) == key_info = <<>>
invalid_or_inactive(key_info) == key_info = <<>> \/ ~key_info[1].is_active

\* {"$set": fields} applied to a document.
set(doc, fields) ==
    [f \in DOMAIN doc |-> IF f \in DOMAIN fields THEN fields[f] ELSE doc[f]]

\* db.api_keys.update_one({"_id": id}, {"$set": fields}).
update_by_id(keys, id, fields) ==
    [i \in 1..Len(keys) |-> IF keys[i]._id = id THEN set(keys[i], fields) ELSE keys[i]]

\* db.api_keys.update_one({"key": target_api}, {"$set": fields}) and the
\* modified_count of its result: 1 when a key matched and a field changed.
update_by_key(keys, target_api, fields) ==
    [i \in 1..Len(keys) |->
        IF keys[i].key = target_api THEN set(keys[i], fields) ELSE keys[i]]
modified_count(keys, target_api, fields) ==
    IF update_by_key(keys, target_api, fields) # keys THEN 1 ELSE 0

\* validate_api_key up to `await get_api_key`: the header is looked at and
\* the key is looked up.
validate_api_key(r) ==
    /\ request[r].pc = "idle"
    /\ \E api_key \in ApiHeaders :
        LET req == [request[r] EXCEPT !.api_key = api_key] IN
        request' = [request EXCEPT ![r] =
            IF api_key \in {None, ""}
            THEN HTTPException(req, 401, "API key is required")
            ELSE IF ValueError(api_key)
            THEN HTTPException(req, 403, "Invalid API key format")
            ELSE [req EXCEPT !.pc = "get_api_key",
                             !.key_info = get_api_key(api_keys, api_key)]]
    /\ UNCHANGED <<MAX_EMAILS, alert, ld, api_keys, env, invocations, site, books, change_log, session_log,
                   reports, scraped_links, clock, main, cat, item, failed_fetches, fetch>>

\* get_api_key has returned: the key is refused, or last_used is written.
validate_key_info(r) ==
    /\ request[r].pc = "get_api_key"
    /\ IF invalid_or_inactive(request[r].key_info)
       THEN /\ request' = [request EXCEPT ![r] =
                    HTTPException(@, 403, "Invalid or inactive API key")]
            /\ UNCHANGED <<api_keys, clock>>
       ELSE /\ api_keys' = update_by_id(api_keys, request[r].key_info[1]._id,
                                        [last_used |-> <<clock>>])
            /\ clock' = clock + 1
            /\ request' = [request EXCEPT ![r] = [@ EXCEPT !.pc = "validated",
                                                           !.accepted = TRUE]]
    /\ UNCHANGED <<MAX_EMAILS, alert, ld, env, invocations, site, books, change_log, session_log,
                   reports, scraped_links, main, cat, item, failed_fetches, fetch>>

\* update_api_key up to `await update_one`.  An empty $set is refused by
\* some MongoDB servers with a WriteError and is a no-op on others.
update_api_key(r) ==
    /\ request[r].pc = "validated"
    /\ \E target_api \in Targets, updates \in Updates, write_error \in BOOLEAN :
        LET req == [request[r] EXCEPT !.target_api = target_api, !.updates = updates] IN
        IF "admin" \notin request[r].key_info[1].scopes
        THEN /\ ~write_error
             /\ request' = [request EXCEPT ![r] =
                    HTTPException(req, 403, "Admin privileges required")]
             /\ UNCHANGED api_keys
        ELSE IF DOMAIN updates = {} /\ write_error
        THEN /\ request' = [request EXCEPT ![r] =
                    HTTPException(req, 500, "WriteError")]
             /\ UNCHANGED api_keys
        ELSE /\ DOMAIN updates # {} => ~write_error
             /\ api_keys' = update_by_key(api_keys, target_api, updates)
             /\ request' = [request EXCEPT ![r] = [req EXCEPT !.pc = "update_one",
                    !.modified_count = modified_count(api_keys, target_api, updates)]]
    /\ UNCHANGED <<MAX_EMAILS, alert, ld, env, invocations, site, books, change_log, session_log,
                   reports, scraped_links, clock, main, cat, item, failed_fetches, fetch>>

\* update_one has returned: 404 on modified_count == 0, else the key is read.
update_modified(r) ==
    /\ request[r].pc = "update_one"
    /\ request' = [request EXCEPT ![r] =
            IF request[r].modified_count = 0
            THEN HTTPException(@, 404, "API key not found")
            ELSE [@ EXCEPT !.pc = "find_one",
                           !.body = get_api_key(api_keys, request[r].target_api)]]
    /\ UNCHANGED <<MAX_EMAILS, alert, ld, api_keys, env, invocations, site, books, change_log, session_log,
                   reports, scraped_links, clock, main, cat, item, failed_fetches, fetch>>

\* find_one has returned: APIKeyInDB(**updated_key) is the response.
update_return(r) ==
    /\ request[r].pc = "find_one"
    /\ request' = [request EXCEPT ![r] =
            IF request[r].body = <<>>
            THEN HTTPException(@, 500, "TypeError")
            ELSE [@ EXCEPT !.pc = "responded", !.status_code = 200]]
    /\ UNCHANGED <<MAX_EMAILS, alert, ld, api_keys, env, invocations, site, books, change_log, session_log,
                   reports, scraped_links, clock, main, cat, item, failed_fetches, fetch>>

----------------------------------------------------------------------------
(* send_email_alert and the module counter MAX_EMAILS (src/scraper/utils.py), *)
(* called by a caller that awaits each call before the next.  Every await  *)
(* of the function (the SMTP send, the sleep after a failed attempt) is a  *)
(* step boundary.                                                          *)

\* The calls made in one process are at most this many.
MaxAlerts == 7

max_retries == 3
retry_delay == 1

Subjects == {"Daily Scraping Report", "New Books"}
Recipients == {None, "to@example.org"}

AlertIdle == [pc |-> "idle", subject |-> None, recipient |-> None, attempt |-> 0,
              attempts |-> 0, waits |-> <<>>, ret |-> <<>>, calls |-> 0, sent |-> 0]

\* utils is imported: MAX_EMAILS = 5, and no call is in progress.
ModuleLoaded ==
    /\ MAX_EMAILS = 5
    /\ alert = AlertIdle

\* `if MAX_EMAILS <= 0 or recipient is None: return False`.
limit_reached_mut(max_emails, recipient) == max_emails < 0 \/ recipient = None
limit_reached(max_emails, recipient) == max_emails <= 0 \/ recipient = None

\* `return sent`; alert.sent counts the calls that returned True.
AlertReturn(a, sent) ==
    [a EXCEPT !.pc = "idle", !.ret = <<sent>>, !.sent = IF sent THEN @ + 1 ELSE @]

\* send_email_alert(subject, body, recipient, smtp_config) up to its first
\* await: the limit, the SMTP configuration (configured: host, username and
\* password are all set), and the first send is issued.
send_email_alert(subject, recipient, configured) ==
    /\ alert.pc = "idle"
    /\ alert.calls < MaxAlerts
    /\ LET call == [AlertIdle EXCEPT !.subject = subject, !.recipient = recipient,
                                     !.calls = alert.calls + 1, !.sent = alert.sent]
       IN  IF limit_reached(MAX_EMAILS, recipient) \/ ~configured
           THEN alert' = AlertReturn(call, FALSE)
           ELSE alert' = [call EXCEPT !.pc = "send"]
    /\ UNCHANGED <<MAX_EMAILS, ld, api_keys, request, env, invocations, site, books, change_log,
                   session_log, reports, scraped_links, clock, main, cat, item,
                   failed_fetches, fetch>>

\* aiosmtplib.send returns (ok) or raises: on ok the counter is decremented
\* and True returned, else the sleep of the attempt is issued.
smtp_send ==
    /\ alert.pc = "send"
    /\ \E ok \in BOOLEAN :
        LET a == [alert EXCEPT !.attempts = @ + 1] IN
        IF ok
        THEN /\ MAX_EMAILS' = MAX_EMAILS - 1
             /\ alert' = AlertReturn(a, TRUE)
        ELSE /\ alert' = [a EXCEPT !.pc = "sleep",
                                   !.waits = Append(@, retry_delay * 2 ^ a.attempt)]
             /\ UNCHANGED MAX_EMAILS
    /\ UNCHANGED <<ld, api_keys, request, env, invocations, site, books, change_log,
                   session_log, reports, scraped_links, clock, main, cat, item,
                   failed_fetches, fetch>>

\* The sleep returns: the next attempt of range(max_retries), or False after
\* the loop.
smtp_retry ==
    /\ alert.pc = "sleep"
    /\ IF alert.attempt + 1 < max_retries
       THEN alert' = [alert EXCEPT !.pc = "send", !.attempt = @ + 1]
       ELSE alert' = AlertReturn(alert, FALSE)
    /\ UNCHANGED <<MAX_EMAILS, ld, api_keys, request, env, invocations, site, books, change_log,
                   session_log, reports, scraped_links, clock, main, cat, item,
                   failed_fetches, fetch>>

----------------------------------------------------------------------------
(* LimitedDict (src/scraper/network_utils.py): an OrderedDict with a size  *)
(* limit, as a sequence of entries in insertion order.                     *)

\* The limits considered are 0 (unlimited) to MaxSize.
MaxSize == 3

Keys == {"a", "b", "c", "d"}
Values == {1, 2}

\* LimitedDict(max_size=n); key is the key of the latest assignment and
\* popped the key popitem removed in it, if it removed one.
LimitedDict(n) == [max_size |-> n, items |-> <<>>, key |-> None, popped |-> None]

\* No LimitedDict is under consideration.
NoDict == ld = <<>>

KeysOf(items) == [i \in 1..Len(items) |-> items[i].key]

\* OrderedDict.__setitem__: a key already present keeps its position and
\* takes the value, a new key goes last.
super_setitem(items, key, value) ==
    IF \E i \in 1..Len(items) : items[i].key = key
    THEN [i \in 1..Len(items) |->
            IF items[i].key = key THEN [key |-> key, value |-> value] ELSE items[i]]
    ELSE Append(items, [key |-> key, value |-> value])

\* popitem(last): the newest entry leaves with last, else the oldest.
popitem(items, last) ==
    IF last THEN [popped |-> items[Len(items)].key, items |-> SubSeq(items, 1, Len(items) - 1)]
    ELSE [popped |-> items[1].key, items |-> Tail(items)]

popitem_first_mut(items) == popitem(items, TRUE)
popitem_first(items) == popitem(items, FALSE)

\* LimitedDict.__setitem__.
setitem(d, key, value) ==
    LET stored == super_setitem(d.items, key, value) IN
    IF d.max_size > 0 /\ Len(stored) > d.max_size
    THEN [d EXCEPT !.key = key, !.items = popitem_first(stored).items,
                   !.popped = popitem_first(stored).popped]
    ELSE [d EXCEPT !.key = key, !.items = stored, !.popped = None]

\* ld[key] = value.
Assign ==
    /\ \E key \in Keys, value \in Values : ld' = setitem(ld, key, value)
    /\ UNCHANGED <<MAX_EMAILS, alert, api_keys, request, env, invocations, site, books, change_log,
                   session_log, reports, scraped_links, clock, main, cat, item,
                   failed_fetches, fetch>>

----------------------------------------------------------------------------
(* Initial state: the store as an earlier run left it, a site, a new run *)

RECURSIVE SeqOf(_)
SeqOf(S) == IF S = {} THEN <<>>
            ELSE LET x == CHOOSE x \in S : \A y \in S : x[1] <= y[1]
                 IN  <<x[2]>> \o SeqOf(S \ {x})

UrlOrder == [u1 |-> 1, u2 |-> 2]
Rank(prev, u) == Cardinality({v \in prev : UrlOrder[v] <= UrlOrder[u]})

\* What an earlier run at time 0 stored for the urls in prev.
PriorBooks(prev) ==
    SeqOf({<<Rank(prev, u),
             WithId(book_in_db(parse_book_page(PriorBody, u)[1], sha256(PriorBody),
                               PriorBody, 0), Rank(prev, u))>> : u \in prev})
PriorChangeLog(prev) ==
    SeqOf({<<Rank(prev, u),
             [book_id |-> Rank(prev, u), change_type |-> "added",
              changed_fields |-> [new_book |-> TRUE], timestamp |-> 0]>> : u \in prev})
PriorSessionLog(prev) ==
    SeqOf({<<Rank(prev, u),
             [session_id |-> PriorSession, url |-> u, timestamp |-> 0]>> : u \in prev})

ItemIdle == [pc |-> "idle", html |-> None, existing |-> <<>>, now |-> 0,
             kind |-> None, changed |-> <<>>, book_id |-> 0,
             result |-> "pending", why |-> None, parsed |-> FALSE]
\* pages: the listing pages the task has requested, in order.
CatIdle == [pc |-> "idle", page |-> None, results |-> <<>>, failed |-> None,
            pages |-> <<>>]
NoBuckets == [new_books |-> <<>>, price_changes |-> <<>>,
              availability_changes |-> <<>>, other_changes |-> <<>>]
MainIdle == [pc |-> "init", start_time |-> 0, index |-> "pending", error |-> None,
             new_books |-> 0, updated_books |-> 0, listed_changes |-> <<>>,
             notified |-> FALSE, buckets |-> NoBuckets]

InitStore ==
    \E prev \in SUBSET URLs :
        /\ books = PriorBooks(prev)
        /\ change_log = PriorChangeLog(prev)
        /\ session_log = PriorSessionLog(prev)
        /\ reports = <<>>

Init ==
    /\ site \in {f \in [URLs -> Bodies] : \A u \in URLs : f[u] \in Served[u]}
    /\ InitStore
    /\ scraped_links = {}
    /\ clock = 1
    /\ main = MainIdle
    /\ cat = [c \in Categories |-> CatIdle]
    /\ item = [s \in SlotsIn(Categories) |-> ItemIdle]
    /\ failed_fetches = 0
    /\ fetch = FetchIdle
    /\ env = [CHANGELOG_LIMIT |-> <<>>, resume |-> FALSE]
    /\ invocations = <<>>
    /\ NoApi
    /\ ModuleLoaded
    /\ NoDict

\* The settings of CHANGELOG_LIMIT considered: not set, -1, 0, 1 and 2.
Limits == {<<>>, <<-1>>, <<0>>, <<1>>, <<2>>}

\* A run over the root index that links c3, under any of the settings, started
\* with or without --resume.  No action reads env.resume: self.resume is
\* read by _ensure_resume alone, which nothing calls.
InitPaged ==
    /\ site \in {f \in [URLs -> Bodies] : \A u \in URLs : f[u] \in Served[u]}
    /\ InitStore
    /\ scraped_links = {}
    /\ clock = 1
    /\ main = MainIdle
    /\ cat = [c \in PagedCategories |-> CatIdle]
    /\ item = [s \in SlotsIn(PagedCategories) |-> ItemIdle]
    /\ failed_fetches = 0
    /\ fetch = FetchIdle
    /\ env \in {[CHANGELOG_LIMIT |-> l, resume |-> r] : l \in Limits, r \in BOOLEAN}
    /\ invocations = <<>>
    /\ NoApi
    /\ ModuleLoaded
    /\ NoDict

InitFetch ==
    /\ site = [u \in URLs |-> PriorBody]
    /\ books = <<>> /\ change_log = <<>> /\ session_log = <<>> /\ reports = <<>>
    /\ scraped_links = {}
    /\ clock = 1
    /\ main = MainIdle
    /\ cat = [c \in Categories |-> CatIdle]
    /\ item = [s \in SlotsIn(Categories) |-> ItemIdle]
    /\ failed_fetches = 0
    /\ InitFetchCall
    /\ env = [CHANGELOG_LIMIT |-> <<>>, resume |-> FALSE]
    /\ invocations = <<>>
    /\ NoApi
    /\ ModuleLoaded
    /\ NoDict

----------------------------------------------------------------------------
(* process_book_page: one task per listed item *)

\* The task returns: its locals are dead.
Return(result, why, parsed) ==
    [ItemIdle EXCEPT !.pc = "done", !.result = result, !.why = why, !.parsed = parsed]

StartItem_mut(s) == [ItemIdle EXCEPT !.pc = "fetch_page"]

\* The first synchronous segment of the task, up to `await fetch_page`.
StartItem(s) ==
    IF UrlOf(s) \in scraped_links
    THEN Return(None, "skipped", FALSE)
    ELSE [ItemIdle EXCEPT !.pc = "fetch_page"]

\* fetch_page returns; on a body: its hash, and find_one is issued.
ItemFetched(s) ==
    /\ item[s].pc = "fetch_page"
    /\ \E outs \in AttemptsLeft :
        LET html == fetch_page(outs, site[UrlOf(s)]) IN
        /\ failed_fetches' = failed_fetches + Failed(html)
        /\ IF not_html(html)
           THEN item' = [item EXCEPT ![s] =
                            Return(None, IF html = None THEN "fetch" ELSE "empty", FALSE)]
           ELSE item' = [item EXCEPT ![s] = [@ EXCEPT !.pc = "find_one", !.html = html,
                                                !.existing = find_one(books, UrlOf(s))]]
    /\ UNCHANGED <<MAX_EMAILS, alert, ld, api_keys, request, env, invocations, site, books, change_log, session_log, reports, scraped_links,
                   clock, main, cat, fetch>>

\* find_one returns: the hash short circuit, the parse, the diff, and the
\* write of the record is issued.
ItemFound(s) ==
    /\ item[s].pc = "find_one"
    /\ LET it == item[s]
           book_url == UrlOf(s)
           content_hash == sha256(it.html)
           book_data == parse_book_page(it.html, book_url)
           now == clock
       IN  IF is_unchanged(it.existing, content_hash)
           THEN /\ item' = [item EXCEPT ![s] = Return(None, "same_hash", FALSE)]
                /\ UNCHANGED <<books, clock>>
           ELSE IF book_data = <<>>
           THEN /\ item' = [item EXCEPT ![s] = Return(None, "parse", TRUE)]
                /\ UNCHANGED <<books, clock>>
           ELSE IF it.existing # <<>>
           THEN LET changed == changed_fields(it.existing[1], book_data[1]) IN
                IF DOMAIN changed # {}
                THEN /\ books' = update_one(books, it.existing[1]._id,
                                    book_in_db(book_data[1], content_hash, it.html, now))
                     /\ item' = [item EXCEPT ![s] = [@ EXCEPT !.pc = "write",
                                    !.kind = "updated", !.now = now, !.changed = changed,
                                    !.book_id = it.existing[1]._id, !.parsed = TRUE]]
                     /\ clock' = clock + 1
                ELSE /\ item' = [item EXCEPT ![s] = Return(None, "no_diff", TRUE)]
                     /\ clock' = clock + 1
                     /\ UNCHANGED books
           ELSE IF duplicate_key(books, book_url)
           THEN /\ item' = [item EXCEPT ![s] = [ItemIdle EXCEPT !.pc = "raised",
                                    !.why = "DuplicateKeyError", !.parsed = TRUE]]
                /\ clock' = clock + 1
                /\ UNCHANGED books
           ELSE /\ books' = insert_one(books,
                                    book_in_db(book_data[1], content_hash, it.html, now))
                /\ item' = [item EXCEPT ![s] = [@ EXCEPT !.pc = "write",
                                    !.kind = "created", !.now = now,
                                    !.changed = [new_book |-> TRUE],
                                    !.book_id = Len(books) + 1, !.parsed = TRUE]]
                /\ clock' = clock + 1
    /\ UNCHANGED <<MAX_EMAILS, alert, ld, api_keys, request, env, invocations, site, change_log, session_log, reports, scraped_links,
                   main, cat, failed_fetches, fetch>>

\* The write of the record returns: the change-log entry is inserted.
ItemWritten(s) ==
    /\ item[s].pc = "write"
    /\ change_log' = insert_change(change_log,
            [book_id |-> item[s].book_id,
             change_type |-> IF item[s].kind = "created" THEN "added" ELSE "updated",
             changed_fields |-> item[s].changed,
             timestamp |-> item[s].now])
    /\ item' = [item EXCEPT ![s].pc = "change_log"]
    /\ UNCHANGED <<MAX_EMAILS, alert, ld, api_keys, request, env, invocations, site, books, session_log, reports, scraped_links,
                   clock, main, cat, failed_fetches, fetch>>

\* The change-log insert returns: the url is marked scraped and the session
\* activity is inserted.
ItemLogged(s) ==
    /\ item[s].pc = "change_log"
    /\ scraped_links' = scraped_links \cup {UrlOf(s)}
    /\ session_log' = Append(session_log,
            [session_id |-> session_id, url |-> UrlOf(s), timestamp |-> item[s].now])
    /\ item' = [item EXCEPT ![s].pc = "session_log"]
    /\ UNCHANGED <<MAX_EMAILS, alert, ld, api_keys, request, env, invocations, site, books, change_log, reports, clock, main, cat, failed_fetches, fetch>>

\* The session-log insert returns: the task returns its classification.
ItemReturn(s) ==
    /\ item[s].pc = "session_log"
    /\ item' = [item EXCEPT ![s] = Return(item[s].kind, None, TRUE)]
    /\ UNCHANGED <<MAX_EMAILS, alert, ld, api_keys, request, env, invocations, site, books, change_log, session_log, reports, scraped_links,
                   clock, main, cat, failed_fetches, fetch>>

----------------------------------------------------------------------------
(* scrape_category: one task per category, its pages one after another *)

\* What gather returns for the item tasks of page p: their results in the
\* order of the links.
RECURSIVE ResultsOf_mut(_, _, _)
ResultsOf_mut(its, p, i) ==
    IF i > Len(BookLinks[p]) THEN <<>>
    ELSE ResultsOf_mut(its, p, i + 1) \o <<its[<<p, i>>].result>>
RECURSIVE ResultsOf(_, _, _)
ResultsOf(its, p, i) ==
    IF i > Len(BookLinks[p]) THEN <<>>
    ELSE <<its[<<p, i>>].result>> \o ResultsOf(its, p, i + 1)

\* What a failed listing fetch returns to the caller: `return []`, appended
\* to what the earlier pages gave.
listing_failed_mut(results) == <<>>
listing_failed(results) == results \o <<>>

\* fetch_page of the listing page returns: on a body its item tasks are
\* gathered, each running up to its own fetch.
CatFetched(c) ==
    /\ cat[c].pc = "fetch_page"
    /\ \E outs \in AttemptsLeft :
        LET html == fetch_page(outs, cat[c].page) IN
        /\ failed_fetches' = failed_fetches + Failed(html)
        /\ IF not_page(html)
           THEN /\ cat' = [cat EXCEPT ![c] = [@ EXCEPT !.pc = "done",
                                                 !.results = listing_failed(@),
                                                 !.failed = cat[c].page]]
                /\ UNCHANGED item
           ELSE /\ cat' = [cat EXCEPT ![c].pc = "gather"]
                /\ item' = [s \in Slots |->
                               IF s[1] = cat[c].page THEN StartItem(s) ELSE item[s]]
    /\ UNCHANGED <<MAX_EMAILS, alert, ld, api_keys, request, env, invocations, site, books, change_log, session_log, reports, scraped_links,
                   clock, main, fetch>>

\* gather returns the results of the page's item tasks: the next page is
\* fetched, or the category is done.
CatGathered(c) ==
    /\ cat[c].pc = "gather"
    /\ \A s \in SlotsOf(cat[c].page) : item[s].pc = "done"
    /\ NextPage[cat[c].page] # None => Len(cat[c].pages) < MaxPages
    /\ LET results == cat[c].results \o ResultsOf(item, cat[c].page, 1)
           next_page_url == NextPage[cat[c].page]
       IN  IF next_page_url # None
           THEN cat' = [cat EXCEPT ![c] = [@ EXCEPT !.pc = "fetch_page",
                                              !.page = next_page_url,
                                              !.results = results,
                                              !.pages = Append(@, next_page_url)]]
           ELSE cat' = [cat EXCEPT ![c] = [@ EXCEPT !.pc = "done", !.results = results]]
    /\ UNCHANGED <<MAX_EMAILS, alert, ld, api_keys, request, env, invocations, site, books, change_log, session_log, reports, scraped_links,
                   clock, main, item, failed_fetches, fetch>>

\* gather without return_exceptions: the first exception of an item task is
\* raised in scrape_category, which has no handler; the sibling item tasks
\* keep running.
CatRaised(c) ==
    /\ cat[c].pc = "gather"
    /\ \E s \in SlotsOf(cat[c].page) : item[s].pc = "raised"
    /\ cat' = [cat EXCEPT ![c].pc = "raised"]
    /\ UNCHANGED <<MAX_EMAILS, alert, ld, api_keys, request, env, invocations, site, books, change_log, session_log, reports, scraped_links,
                   clock, main, item, failed_fetches, fetch>>

----------------------------------------------------------------------------
(* scrape_all_books *)

\* Where scrape_all_books goes when the root index gives no body: `return`.
after_index_failure_mut == "report"
after_index_failure == "returned"

\* start_time is taken and the root index is requested.
MainStart ==
    /\ main.pc = "init"
    /\ main' = [main EXCEPT !.pc = "fetch_page", !.start_time = clock]
    /\ clock' = clock + 1
    /\ UNCHANGED <<MAX_EMAILS, alert, ld, api_keys, request, env, invocations, site, books, change_log, session_log, reports, scraped_links,
                   cat, item, failed_fetches, fetch>>

\* fetch_page of the root index returns: `return` on no body, else the
\* category tasks are gathered, each running up to its first fetch.
MainIndexFetched ==
    /\ main.pc = "fetch_page"
    /\ \E outs \in AttemptsLeft :
        LET html == fetch_page(outs, "index") IN
        /\ failed_fetches' = failed_fetches + Failed(html)
        /\ IF not_page(html)
           THEN /\ main' = [main EXCEPT !.pc = after_index_failure, !.index = "failed"]
                /\ UNCHANGED cat
           ELSE /\ main' = [main EXCEPT !.pc = "gather", !.index = "ok"]
                /\ cat' = [c \in category_links |->
                               [CatIdle EXCEPT !.pc = "fetch_page", !.page = FirstPage[c],
                                               !.pages = <<FirstPage[c]>>]]
    /\ UNCHANGED <<MAX_EMAILS, alert, ld, api_keys, request, env, invocations, site, books, change_log, session_log, reports, scraped_links,
                   clock, item, fetch>>

\* Every category task returned: generate_daily_report(start_time) is called.
MainGathered ==
    /\ main.pc = "gather"
    /\ \A c \in category_links : cat[c].pc = "done"
    /\ main' = [main EXCEPT !.pc = "report"]
    /\ UNCHANGED <<MAX_EMAILS, alert, ld, api_keys, request, env, invocations, site, books, change_log, session_log, reports, scraped_links,
                   clock, cat, item, failed_fetches, fetch>>

Cancel(task) ==
    IF task.pc \in {"idle", "done", "raised"} THEN task ELSE [task EXCEPT !.pc = "cancelled"]

\* The exception of a category task leaves gather, scrape_all_books and
\* main(); asyncio.run then cancels every task still pending.
MainRaised ==
    /\ main.pc = "gather"
    /\ \E c \in category_links : cat[c].pc = "raised"
    /\ main' = [main EXCEPT !.pc = "raised", !.error = "DuplicateKeyError"]
    /\ cat' = [c \in category_links |-> Cancel(cat[c])]
    /\ item' = [s \in Slots |-> Cancel(item[s])]
    /\ UNCHANGED <<MAX_EMAILS, alert, ld, api_keys, request, env, invocations, site, books, change_log, session_log, reports, scraped_links,
                   clock, failed_fetches, fetch>>

----------------------------------------------------------------------------
(* generate_daily_report and send_change_notifications *)

\* int(os.getenv("CHANGELOG_LIMIT", -1)); env.CHANGELOG_LIMIT is <<>> when
\* the variable is not set, <<n>> when it is set to n.
getenv_default == -1
CHANGELOG_LIMIT ==
    IF env.CHANGELOG_LIMIT = <<>> THEN getenv_default ELSE env.CHANGELOG_LIMIT[1]

Remove(seq, i) == SubSeq(seq, 1, i - 1) \o SubSeq(seq, i + 1, Len(seq))

\* .sort("timestamp", -1): newest first; equal timestamps keep their order.
RECURSIVE SortNewestFirst(_)
SortNewestFirst(seq) ==
    IF seq = <<>> THEN <<>>
    ELSE LET i == CHOOSE i \in 1..Len(seq) :
                    \A j \in 1..Len(seq) :
                        \/ seq[j].timestamp < seq[i].timestamp
                        \/ (seq[j].timestamp = seq[i].timestamp /\ i <= j)
         IN  <<seq[i]>> \o SortNewestFirst(Remove(seq, i))

Min(a, b) == IF a <= b THEN a ELSE b

\* The change list a report keeps.
truncate(listed_changes, limit) ==
    IF limit > 0 THEN SubSeq(listed_changes, 1, Min(limit, Len(listed_changes)))
    ELSE IF limit = -1 THEN listed_changes
    ELSE <<>>

bucket_mut(change) ==
    IF change.change_type = "added" THEN "new_books"
    ELSE IF change.change_type = "updated"
    THEN IF "availability" \in DOMAIN change.changed_fields THEN "availability_changes"
         ELSE IF "price_incl_tax" \in DOMAIN change.changed_fields THEN "price_changes"
         ELSE "other_changes"
    ELSE None

\* The bucket send_change_notifications puts a change in.
bucket(change) ==
    IF change.change_type = "added" THEN "new_books"
    ELSE IF change.change_type = "updated"
    THEN IF "price_incl_tax" \in DOMAIN change.changed_fields THEN "price_changes"
         ELSE IF "availability" \in DOMAIN change.changed_fields THEN "availability_changes"
         ELSE "other_changes"
    ELSE None

InBucket(changes, b) == LET P(ch) == bucket(ch) = b IN SelectSeq(changes, P)

\* The two counts and the change list since `since`, read from the store.
generate_daily_report_mut ==
    /\ main.pc = "report"
    /\ LET since == main.start_time
           New(b) == b.first_seen >= since
           Upd(ch) == ch.change_type = "updated" /\ ch.timestamp >= since
           Since(ch) == ch.timestamp >= since
       IN  main' = [main EXCEPT !.pc = "notify",
                       !.new_books = Len(SelectSeq(books, New)),
                       !.updated_books = Len(SelectSeq(change_log, Upd)),
                       !.listed_changes =
                            truncate(SortNewestFirst(SelectSeq(change_log, Since)),
                                     CHANGELOG_LIMIT)]
    /\ UNCHANGED <<MAX_EMAILS, alert, ld, api_keys, request, env, invocations, site, books, change_log, session_log, reports,
                   scraped_links, clock, cat, item, failed_fetches, fetch>>
generate_daily_report ==
    /\ main.pc = "report"
    /\ LET since == main.start_time
           New(b) == b.first_seen >= since
           Upd(ch) == ch.change_type = "updated" /\ ch.timestamp >= since
           Since(ch) == ch.timestamp >= since
       IN  main' = [main EXCEPT !.pc = "notify",
                       !.new_books = Len(SelectSeq(books, New)),
                       !.updated_books = Len(SelectSeq(change_log, Upd)),
                       !.listed_changes = SortNewestFirst(SelectSeq(change_log, Since))]
    /\ UNCHANGED <<MAX_EMAILS, alert, ld, api_keys, request, env, invocations, site, books, change_log, session_log, reports, scraped_links,
                   clock, cat, item, failed_fetches, fetch>>

\* send_change_notifications(listed_changes) fills its four buckets.  With
\* every bucket empty it returns without a send, and the report is
\* truncated and inserted; else the first non-empty bucket's mail is built.
send_change_notifications ==
    /\ main.pc = "notify"
    /\ LET buckets == [b \in DOMAIN NoBuckets |-> InBucket(main.listed_changes, b)] IN
       IF \A b \in DOMAIN NoBuckets : buckets[b] = <<>>
       THEN /\ main' = [main EXCEPT !.pc = "summary", !.notified = TRUE,
                                    !.buckets = buckets]
            /\ reports' = Append(reports,
                    [date |-> clock, new_books |-> main.new_books,
                     updated_books |-> main.updated_books,
                     changes |-> truncate(main.listed_changes, CHANGELOG_LIMIT)])
            /\ clock' = clock + 1
       ELSE /\ main' = [main EXCEPT !.pc = "group_email", !.notified = TRUE,
                                    !.buckets = buckets]
            /\ UNCHANGED <<reports, clock>>
    /\ UNCHANGED <<MAX_EMAILS, alert, ld, api_keys, request, env, invocations, site, books, change_log, session_log, scraped_links,
                   cat, item, failed_fetches, fetch>>

\* The arguments of send_email_alert are evaluated: config.EMAIL_TO is no
\* attribute of Config, so AttributeError leaves the run before the send.
group_email ==
    /\ main.pc = "group_email"
    /\ main' = [main EXCEPT !.pc = "raised", !.error = "AttributeError"]
    /\ UNCHANGED <<MAX_EMAILS, alert, ld, api_keys, request, env, invocations, site, books, change_log, session_log, reports, scraped_links,
                   clock, cat, item, failed_fetches, fetch>>

summary_email ==
    /\ main.pc = "summary"
    /\ main' = [main EXCEPT !.pc = "raised", !.error = "AttributeError"]
    /\ UNCHANGED <<MAX_EMAILS, alert, ld, api_keys, request, env, invocations, site, books, change_log, session_log, reports, scraped_links,
                   clock, cat, item, failed_fetches, fetch>>

----------------------------------------------------------------------------
(* process_book_page called again and again on one url, as a caller that   *)
(* awaits each call before the next does; a new process may start between  *)
(* two calls.                                                              *)

\* At most this many calls are made.
MaxInvocations == 3

\* The item every call is about.
Detected == <<"P", 1>>

\* process_book_page(book_url) is called once the call before it returned.
\* The call is recorded with the length of the change log it finds, the
\* reason the call before it gave no classification, and scraped_links.
Invoke ==
    /\ item[Detected].pc \in {"idle", "done"}
    /\ Len(invocations) < MaxInvocations
    /\ invocations' = Append(invocations,
            [before |-> Len(change_log), prev |-> item[Detected].why,
             links |-> scraped_links])
    /\ item' = [item EXCEPT ![Detected] = StartItem(Detected)]
    /\ UNCHANGED <<MAX_EMAILS, alert, ld, api_keys, request, env, site, books, change_log, session_log, reports, scraped_links,
                   clock, main, cat, failed_fetches, fetch>>

\* The process ends and a later run constructs a new BookScraper: its
\* scraped_links is empty (nothing loads the session's urls).
NewProcess ==
    /\ item[Detected].pc = "done"
    /\ scraped_links # {}
    /\ scraped_links' = {}
    /\ UNCHANGED <<MAX_EMAILS, alert, ld, api_keys, request, env, invocations, site, books, change_log, session_log, reports,
                   clock, main, cat, item, failed_fetches, fetch>>

----------------------------------------------------------------------------
(* Specifications *)

Next ==
    \/ MainStart
    \/ MainIndexFetched
    \/ MainGathered
    \/ MainRaised
    \/ \E c \in category_links : CatFetched(c)
    \/ \E c \in category_links : CatGathered(c)
    \/ \E c \in category_links : CatRaised(c)
    \/ \E s \in Slots : ItemFetched(s)
    \/ \E s \in Slots : ItemFound(s)
    \/ \E s \in Slots : ItemWritten(s)
    \/ \E s \in Slots : ItemLogged(s)
    \/ \E s \in Slots : ItemReturn(s)
    \/ generate_daily_report
    \/ send_change_notifications
    \/ group_email
    \/ summary_email

Spec == Init /\ [][Next]_vars

\* The runs of Spec in which u2 serves the stored body or a body that does
\* not parse (u1 serves any body).
InitFair == Init /\ site["u2"] \in {PriorBody, "b7"}

\* The event loop runs every task that is ready, and every fetch and store
\* call returns.
FairSpec == InitFair /\ [][Next]_vars /\ WF_vars(Next)

NextFetch == FetchAttempt \/ FetchWake

SpecFetch == InitFetch /\ [][NextFetch]_vars

SpecPaged == InitPaged /\ [][Next]_vars

\* The API server with the crawler at rest: up to two requests, each with any
\* header, and for an accepted admin key any target and body.
InitApi ==
    /\ site = [u \in URLs |-> PriorBody]
    /\ books = <<>> /\ change_log = <<>> /\ session_log = <<>> /\ reports = <<>>
    /\ scraped_links = {}
    /\ clock = 1
    /\ main = MainIdle
    /\ cat = [c \in Categories |-> CatIdle]
    /\ item = [s \in SlotsIn(Categories) |-> ItemIdle]
    /\ failed_fetches = 0
    /\ fetch = FetchIdle
    /\ env = [CHANGELOG_LIMIT |-> <<>>, resume |-> FALSE]
    /\ invocations = <<>>
    /\ api_keys = StoredKeys
    /\ request = [r \in {"r1", "r2"} |-> RequestIdle]
    /\ ModuleLoaded
    /\ NoDict

NextApi ==
    \/ \E r \in Requests : validate_api_key(r)
    \/ \E r \in Requests : validate_key_info(r)
    \/ \E r \in Requests : update_api_key(r)
    \/ \E r \in Requests : update_modified(r)
    \/ \E r \in Requests : update_return(r)

SpecApi == InitApi /\ [][NextApi]_vars

\* A run over the root index that links c4, whose pagination is a cycle.
InitCyclic ==
    /\ site \in {f \in [URLs -> Bodies] : \A u \in URLs : f[u] \in Served[u]}
    /\ InitStore
    /\ scraped_links = {}
    /\ clock = 1
    /\ main = MainIdle
    /\ cat = [c \in CyclicCategories |-> CatIdle]
    /\ item = [s \in SlotsIn(CyclicCategories) |-> ItemIdle]
    /\ failed_fetches = 0
    /\ fetch = FetchIdle
    /\ env = [CHANGELOG_LIMIT |-> <<>>, resume |-> FALSE]
    /\ invocations = <<>>
    /\ NoApi
    /\ ModuleLoaded
    /\ NoDict

SpecCyclic == InitCyclic /\ [][Next]_vars

\* The calls of send_email_alert a process makes one after another, with
\* any subject, with or without a recipient and an SMTP configuration.
InitEmail ==
    /\ site = [u \in URLs |-> PriorBody]
    /\ books = <<>> /\ change_log = <<>> /\ session_log = <<>> /\ reports = <<>>
    /\ scraped_links = {}
    /\ clock = 1
    /\ main = MainIdle
    /\ cat = [c \in Categories |-> CatIdle]
    /\ item = [s \in SlotsIn(Categories) |-> ItemIdle]
    /\ failed_fetches = 0
    /\ fetch = FetchIdle
    /\ env = [CHANGELOG_LIMIT |-> <<>>, resume |-> FALSE]
    /\ invocations = <<>>
    /\ NoApi
    /\ ModuleLoaded
    /\ NoDict

NextEmail ==
    \/ \E subject \in Subjects, recipient \in Recipients, configured \in BOOLEAN :
            send_email_alert(subject, recipient, configured)
    \/ smtp_send
    \/ smtp_retry

SpecEmail == InitEmail /\ [][NextEmail]_vars

\* The assignments made to one LimitedDict of any of the limits.
InitDict ==
    /\ site = [u \in URLs |-> PriorBody]
    /\ books = <<>> /\ change_log = <<>> /\ session_log = <<>> /\ reports = <<>>
    /\ scraped_links = {}
    /\ clock = 1
    /\ main = MainIdle
    /\ cat = [c \in Categories |-> CatIdle]
    /\ item = [s \in SlotsIn(Categories) |-> ItemIdle]
    /\ failed_fetches = 0
    /\ fetch = FetchIdle
    /\ env = [CHANGELOG_LIMIT |-> <<>>, resume |-> FALSE]
    /\ invocations = <<>>
    /\ NoApi
    /\ ModuleLoaded
    /\ ld \in {LimitedDict(n) : n \in 0..MaxSize}

SpecDict == InitDict /\ [][Assign]_vars

\* The bodies an earlier run may have parsed for the stored record, and the
\* parsed fields a stored record may lack (a record written before the field
\* was part of the record).
OldBodies == {b \in Bodies : Html[b].wellformed}
AbsentFields == {{}, {"availability"}, {"title"}, {"price_incl_tax", "availability"}}
Without(rec, absent) == [f \in DOMAIN rec \ absent |-> rec[f]]

\* process_book_page on a url whose stored record is any of these.
InitDiff ==
    /\ site \in {f \in [URLs -> Bodies] :
                    f[UrlOf(Detected)] \in Served[UrlOf(Detected)] /\ f["u2"] = PriorBody}
    /\ \E old \in OldBodies, absent \in AbsentFields :
        books = <<Without(WithId(book_in_db(parse_book_page(old, UrlOf(Detected))[1],
                                            sha256(old), old, 0), 1), absent)>>
    /\ change_log = PriorChangeLog({UrlOf(Detected)})
    /\ session_log = PriorSessionLog({UrlOf(Detected)})
    /\ reports = <<>>
    /\ scraped_links = {}
    /\ clock = 1
    /\ main = MainIdle
    /\ cat = [c \in Categories |-> CatIdle]
    /\ item = [s \in SlotsIn(Categories) |-> ItemIdle]
    /\ failed_fetches = 0
    /\ fetch = FetchIdle
    /\ env = [CHANGELOG_LIMIT |-> <<>>, resume |-> FALSE]
    /\ invocations = <<>>
    /\ NoApi
    /\ ModuleLoaded
    /\ NoDict

NextDetect ==
    \/ Invoke
    \/ NewProcess
    \/ ItemFetched(Detected)
    \/ ItemFound(Detected)
    \/ ItemWritten(Detected)
    \/ ItemLogged(Detected)
    \/ ItemReturn(Detected)

SpecDetect == Init /\ [][NextDetect]_vars

SpecDiff == InitDiff /\ [][NextDetect]_vars

----------------------------------------------------------------------------
(* Properties *)

\* Task s takes a step of its own (a cancellation is not one).
Stepped(s) == item'[s] # item[s] /\ item'[s].pc # "cancelled"

Range(seq) == {seq[i] : i \in 1..Len(seq)}

\* C1: when the record found for the url has the content hash of the body
\* just fetched, the task returns no classification without calling the
\* parser and without a write to books, change_log or session_log.
C1_HashShortCircuit ==
    [][\A s \in Slots :
        ( /\ item[s].pc = "find_one"
          /\ item[s].existing # <<>>
          /\ item[s].existing[1].content_hash = sha256(item[s].html)
          /\ Stepped(s) )
        => /\ item'[s].pc = "done"
           /\ item'[s].result = None
           /\ ~item'[s].parsed
           /\ UNCHANGED <<books, change_log, session_log>>]_vars

C1_Witness ==
    \E s \in Slots : item[s].pc = "done" /\ item[s].why = "same_hash"

\* The task has found a record that differs from the fetched page in
\* price_incl_tax alone.
OnlyPriceDiffers(s) ==
    /\ item[s].pc = "find_one"
    /\ item[s].existing # <<>>
    /\ item[s].existing[1].content_hash # sha256(item[s].html)
    /\ Html[item[s].html].wellformed
    /\ Html[item[s].html].title = item[s].existing[1].title
    /\ Html[item[s].html].availability = item[s].existing[1].availability
    /\ Html[item[s].html].price_incl_tax # item[s].existing[1].price_incl_tax

PriceOnly(e) ==
    e.change_type = "updated" /\ DOMAIN e.changed_fields = {"price_incl_tax"}

\* C2: a re-crawl that finds only price_incl_tax changed from old to new is
\* classified updated, appends one change-log entry whose changed_fields is
\* exactly price_incl_tax -> (old, new), and the notifier puts that entry in
\* its price-change bucket and in no other.
C2_PriceUpdate ==
    /\ [][\A s \in Slots :
            /\ (OnlyPriceDiffers(s) /\ Stepped(s))
                => /\ item'[s].pc = "write"
                   /\ item'[s].kind = "updated"
                   /\ item'[s].changed =
                        [k \in {"price_incl_tax"} |->
                            <<item[s].existing[1].price_incl_tax,
                              Html[item[s].html].price_incl_tax>>]
                   /\ change_log' = change_log
            /\ (item[s].pc = "write" /\ item[s].kind = "updated" /\ Stepped(s))
                => change_log' = Append(change_log,
                        [book_id |-> item[s].book_id, change_type |-> "updated",
                         changed_fields |-> item[s].changed,
                         timestamp |-> item[s].now])
            /\ (item[s].pc \in {"change_log", "session_log"} /\ Stepped(s))
                => /\ change_log' = change_log
                   /\ item'[s].pc = "done" => item'[s].result = item[s].kind]_vars
    /\ [](main.notified =>
            \A i \in 1..Len(change_log) :
                (change_log[i].timestamp >= main.start_time /\ PriceOnly(change_log[i]))
                => /\ change_log[i] \in Range(main.buckets.price_changes)
                   /\ change_log[i] \notin Range(main.buckets.new_books)
                   /\ change_log[i] \notin Range(main.buckets.availability_changes)
                   /\ change_log[i] \notin Range(main.buckets.other_changes))

C2_Witness ==
    /\ main.notified
    /\ \E s \in Slots : item[s].pc = "done" /\ item[s].result = "updated"
    /\ \E i \in 1..Len(main.buckets.price_changes) :
            main.buckets.price_changes[i].changed_fields
                = [k \in {"price_incl_tax"} |-> <<10, 12>>]

\* C3: books never holds two records with one url.
C3_UniqueUrl ==
    \A i, j \in 1..Len(books) : books[i].url = books[j].url => i = j

\* Two tasks raced to create one url and the unique index rejected the later
\* insert.
C3_Witness ==
    \E s, t \in Slots :
        /\ s # t /\ UrlOf(s) = UrlOf(t)
        /\ item[s].pc = "raised"
        /\ item[t].pc \in {"write", "change_log", "session_log", "done"}
        /\ Cardinality({i \in 1..Len(books) : books[i].url = UrlOf(s)}) = 1

Finished(s) == item[s].pc \in {"done", "raised", "cancelled"}

\* The items on the listing pages of the categories this run's index links.
Dispatchable == {s \in Slots : CategoryOfPage[s[1]] \in category_links}

CreationEntries(u) ==
    {i \in 1..Len(change_log) :
        /\ change_log[i].change_type = "added"
        /\ \E j \in 1..Len(books) :
                books[j].url = u /\ books[j]._id = change_log[i].book_id}

\* C4: once two tasks that raced to create one url (the unique index
\* rejected one of the inserts) have both finished, the change log holds
\* exactly one creation entry for the url.
C4_OneCreationEntry ==
    \A u \in URLs :
        ( /\ \E s \in Slots : UrlOf(s) = u /\ item[s].pc = "raised"
          /\ \A t \in Dispatchable : UrlOf(t) = u => Finished(t) )
        => Cardinality(CreationEntries(u)) = 1

\* C5: a task whose insert meets a duplicate key ends without raising.
C5_DuplicateKeySwallowed ==
    \A s \in Slots : item[s].pc # "raised"

\* C6: an exception of an item task does not leave the concurrent dispatch:
\* no category task and no run ends with it, and no other task is cut short.
C6_NoPropagation ==
    /\ \A c \in Categories : cat[c].pc \notin {"raised", "cancelled"}
    /\ \A s \in Slots : item[s].pc # "cancelled"
    /\ main.error # "DuplicateKeyError"

\* C7: fetch_page makes at most 3 attempts, one after another, and stops at
\* the first that yields a body, which it returns; when 3 attempts have
\* failed it returns None; it never raises.
C7_FetchAttempts ==
    /\ Len(fetch.calls) <= 3
    /\ \A i \in 1..(Len(fetch.calls) - 1) : fetch.calls[i] # "ok"
    /\ fetch.pc # "raised"
    /\ fetch.pc \in {"call", "sleep"} => \A i \in 1..Len(fetch.calls) : fetch.calls[i] # "ok"
    /\ fetch.pc = "returned" =>
        IF fetch.calls[Len(fetch.calls)] = "ok"
        THEN fetch.ret = fetch.body
        ELSE fetch.ret = None /\ Len(fetch.calls) = 3

\* Two failed attempts, then the third yields the body.
C7_Witness ==
    /\ fetch.pc = "returned"
    /\ fetch.calls \in {<<"error", "error", "ok">>, <<"timeout", "status", "ok">>}
    /\ fetch.ret = fetch.body

RECURSIVE Concat(_, _)
Concat(f, i) == IF i > Len(f) THEN <<>> ELSE f[i] \o Concat(f, i + 1)

\* What the item tasks of a listing page gave, <<>> for a page that was
\* never dispatched.
PageResults(p) ==
    IF \A s \in SlotsOf(p) : item[s].pc = "idle" THEN <<>> ELSE ResultsOf(item, p, 1)

PageIndex(c, p) == CHOOSE i \in 1..Len(Chain[c]) : Chain[c][i] = p

NoStoreError == \A s \in Slots : item[s].pc # "raised"

C9_FailedItemWritesNothing ==
    [][\A s \in Slots :
        ( /\ Stepped(s)
          /\ \/ item[s].pc = "fetch_page" /\ item'[s].pc # "find_one"
             \/ /\ item[s].pc = "find_one"
                /\ ~Html[item[s].html].wellformed
                /\ ~(item[s].existing # <<>>
                        /\ item[s].existing[1].content_hash = sha256(item[s].html)) )
        => /\ item'[s].pc = "done"
           /\ item'[s].result = None
           /\ UNCHANGED <<books, change_log, session_log, scraped_links>>]_vars

C9_Witness ==
    /\ \E s \in Slots : item[s].pc = "done" /\ item[s].why = "fetch"
    /\ \E s \in Slots : item[s].pc = "done" /\ item[s].why = "parse"

\* C10: when the fetch of the root index fails the run ends at once: no
\* category or item task exists, nothing is written to books, change_log or
\* session_log, no report is inserted and the notifier is not called.
C10_RootFailureEndsRun ==
    main.index = "failed" =>
        /\ main.pc = "returned"
        /\ \A c \in Categories : cat[c].pc = "idle"
        /\ \A s \in Slots : item[s].pc = "idle"
        /\ \A i \in 1..Len(books) : books[i].last_updated < main.start_time
        /\ \A i \in 1..Len(change_log) : change_log[i].timestamp < main.start_time
        /\ \A i \in 1..Len(session_log) : session_log[i].session_id # session_id
        /\ reports = <<>>
        /\ ~main.notified

C10_Witness ==
    main.index = "failed" /\ main.pc = "returned" /\ books # <<>>

\* The record of books with this _id, as a set (empty when there is none).
BookOf(id) == {books[j] : j \in {j \in 1..Len(books) : books[j]._id = id}}

\* C11: first_seen is set once, at creation: whatever updates follow, the
\* first_seen a record stores is the timestamp of its creation entry.
C11_FirstSeenSetOnce ==
    \A i \in 1..Len(change_log) :
        change_log[i].change_type = "added" =>
            \A b \in BookOf(change_log[i].book_id) :
                b.first_seen = change_log[i].timestamp

\* C12: every record has first_seen <= last_updated, and the write of a
\* processing classified created or updated leaves the record with
\* last_updated equal to the time of that processing.
C12_LastUpdatedRefreshed ==
    /\ [](\A i \in 1..Len(books) : books[i].first_seen <= books[i].last_updated)
    /\ [][\A s \in Slots :
            (item[s].pc = "find_one" /\ item'[s].pc = "write")
                => /\ item'[s].now = clock
                   /\ item'[s].kind \in {"created", "updated"}
                   /\ \E j \in 1..Len(books') :
                        /\ books'[j]._id = item'[s].book_id
                        /\ books'[j].url = UrlOf(s)
                        /\ books'[j].last_updated = item'[s].now]_vars

\* One item was classified created and another updated, and both records
\* carry a last_updated of this run.
C12_Witness ==
    \E s, t \in Slots :
        /\ item[s].pc = "done" /\ item[s].result = "created"
        /\ item[t].pc = "done" /\ item[t].result = "updated"
        /\ \A u \in {UrlOf(s), UrlOf(t)} :
            \E j \in 1..Len(books) :
                books[j].url = u /\ books[j].last_updated >= main.start_time

\* C13: the content_hash of every stored record is the digest of the
\* raw_html stored in that same record.
C13_HashOfStoredBody ==
    \A i \in 1..Len(books) : books[i].content_hash = sha256(books[i].raw_html)

\* Two concurrent tasks have both updated one url to the body the site
\* serves, and another url was created.
C13_Witness ==
    /\ \E s, t \in Slots :
        /\ s # t /\ UrlOf(s) = UrlOf(t)
        /\ item[s].pc = "done" /\ item[s].result = "updated"
        /\ item[t].pc = "done" /\ item[t].result = "updated"
        /\ \E j \in 1..Len(books) :
            /\ books[j].url = UrlOf(s)
            /\ books[j].raw_html = site[UrlOf(s)]
            /\ books[j].raw_html # PriorBody
    /\ \E r \in Slots : item[r].pc = "done" /\ item[r].result = "created"

\* The change-log entries the k-th call of process_book_page appended.
EntriesOf(k) ==
    (IF k < Len(invocations) THEN invocations[k + 1].before ELSE Len(change_log))
        - invocations[k].before

\* C14: of two calls of process_book_page in succession on one url that serves
\* one body, the first appends at most one change-log entry and the second
\* none, in the same run and in a later run alike.
C14_SecondCallAppendsNothing ==
    \A k \in 1..Len(invocations) :
        /\ EntriesOf(k) <= 1
        /\ (k >= 2 /\ invocations[k].prev # "fetch") => EntriesOf(k) = 0

\* The first call appended an entry, the second ran in the same process and
\* the third in a later one; both fetched nothing or found nothing to log.
C14_Witness ==
    /\ Len(invocations) = 3
    /\ item[Detected].pc = "done"
    /\ item[Detected].why = "same_hash"
    /\ EntriesOf(1) = 1
    /\ invocations[2].links # {}
    /\ invocations[3].links = {}

\* C15: the change log is append-only: every step of the crawl, of report
\* generation and of notification leaves the entries it found in place and
\* unchanged, so the change log after the step extends the one before it.
C15_AppendOnly ==
    [][/\ Len(change_log') >= Len(change_log)
       /\ SubSeq(change_log', 1, Len(change_log)) = change_log]_vars

\* Entries of an earlier run are in the log, this run added a creation and
\* an update entry, and the report was generated and the notifier called.
C15_Witness ==
    /\ main.notified
    /\ \E i \in 1..Len(change_log) : change_log[i].timestamp < main.start_time
    /\ \E i, j \in 1..Len(change_log) :
        /\ change_log[i].timestamp >= main.start_time
        /\ change_log[j].timestamp >= main.start_time
        /\ change_log[i].change_type = "added"
        /\ change_log[j].change_type = "updated"

\* Page p comes before page q in the chain of category c.
Before(c, p, q) == PageIndex(c, p) < PageIndex(c, q)

\* The classifications of the items of page p, in the order of its links.
Classifications(p) == [i \in 1..Len(BookLinks[p]) |-> item[<<p, i>>].result]

\* C16: within a category the listing pages are fetched in pagination order
\* and the items are visited page by page: a page is fetched only when every
\* item task of the page before it has completed, no item of a page is
\* dispatched before that page is fetched, the traversal stops after the page
\* with no next link, and the classifications returned are those of the
\* pages in chain order.
C16_PaginationOrder ==
    /\ [][\A c \in category_links :
            /\ cat'[c].page # cat[c].page =>
                IF cat[c].page = None
                THEN cat'[c].page = FirstPage[c]
                ELSE /\ cat'[c].page = NextPage[cat[c].page]
                     /\ cat'[c].pc = "fetch_page"
                     /\ \A s \in SlotsOf(cat[c].page) : item[s].pc = "done"
            /\ cat[c].pc = "done" => cat'[c] = cat[c]]_vars
    /\ [](\A c \in category_links :
            cat[c].page # None =>
                /\ \A s \in Slots :
                    CategoryOfPage[s[1]] = c =>
                        /\ Before(c, s[1], cat[c].page) => item[s].pc = "done"
                        /\ Before(c, cat[c].page, s[1]) => item[s].pc = "idle"
                        /\ (s[1] = cat[c].page /\ cat[c].pc = "fetch_page")
                                => item[s].pc = "idle"
                /\ (cat[c].pc = "done" /\ cat[c].failed = None) =>
                        /\ NextPage[cat[c].page] = None
                        /\ cat[c].results =
                            Concat([i \in 1..Len(Chain[c]) |->
                                        Classifications(Chain[c][i])], 1))

\* The three pages of c3 were traversed: X gave an update and a failed
\* item, Y a creation, Z a skip.
C16_Witness ==
    /\ cat["c3"].pc = "done"
    /\ cat["c3"].page = "Z"
    /\ cat["c3"].results = <<"updated", None, "created", None>>
    /\ item[<<"Z", 1>>].why = "skipped"

\* The run is over: scrape_all_books returned or an exception left it.
RunEnded == main.pc \in {"returned", "raised"}

\* The report aggregator is running.
Aggregating == main.pc \in {"report", "notify", "group_email", "summary"}

\* C17: in a run whose root index fetch succeeds, the report aggregator runs
\* only once every category task and item task has completed, with since the
\* start time of the run, and when the run is over the aggregator has run and
\* exactly one report has been inserted.
C17_OneReportPerRun ==
    /\ Aggregating =>
        /\ \A c \in category_links : cat[c].pc = "done"
        /\ \A s \in Slots : item[s].pc \in {"idle", "done"}
    /\ (main.index = "ok" /\ RunEnded) =>
        /\ main.notified
        /\ Len(reports) = 1

\* The change-log entries of this run (timestamp >= since), newest first.
Qualifying ==
    LET Since(ch) == ch.timestamp >= main.start_time
    IN  SortNewestFirst(SelectSeq(change_log, Since))

\* The change list the retention policy keeps of q under limit L.
Retained(q, L) ==
    IF L > 0 THEN SubSeq(q, 1, IF Len(q) <= L THEN Len(q) ELSE L)
    ELSE IF L = -1 THEN q
    ELSE <<>>

\* C18: once the aggregator has run, the report it persisted holds, of the n
\* change-log entries with timestamp >= since, the min(n, L) newest in
\* newest-first order when L > 0, all n when L = -1, none when L = 0.
C18_ReportHonoursLimit ==
    (main.notified /\ RunEnded) =>
        \E i \in 1..Len(reports) :
            reports[i].changes = Retained(Qualifying, CHANGELOG_LIMIT)

\* The entries the notifier has put in its buckets.
Bucketed(buckets) == UNION {Range(buckets[b]) : b \in DOMAIN buckets}

\* C19: under every setting of the retention limit the notifier is called
\* with all change-log entries with timestamp >= since, and it is called
\* before the list is truncated and a report persisted.
C19_NotifierSeesAll ==
    [][(main.pc = "notify" /\ main'.pc # "notify") =>
            /\ main.listed_changes = Qualifying
            /\ Bucketed(main'.buckets) = Range(Qualifying)
            /\ Len(main'.buckets.new_books) + Len(main'.buckets.price_changes)
                + Len(main'.buckets.availability_changes)
                + Len(main'.buckets.other_changes) = Len(Qualifying)
            /\ reports = <<>>]_vars

\* The limit is 1, the run logged three changes and the notifier got them all.
C19_Witness ==
    /\ main.notified
    /\ env.CHANGELOG_LIMIT = <<1>>
    /\ Len(Qualifying) = 3
    /\ Len(main.buckets.new_books) + Len(main.buckets.price_changes) = 3

\* The aggregator has read the change list of the run.
Listed == main.pc \in {"notify", "group_email", "summary"} \/ main.notified

\* C20: with CHANGELOG_LIMIT not set, the change list the aggregator keeps
\* for the report is empty, as under a limit of 0, and the report persisted
\* for the run stores an empty change list.
C20_UnsetStoresEmptyList ==
    env.CHANGELOG_LIMIT = <<>> =>
        /\ Listed => truncate(main.listed_changes, CHANGELOG_LIMIT) = <<>>
        /\ (main.notified /\ RunEnded) =>
                \E i \in 1..Len(reports) : reports[i].changes = <<>>

\* The buckets of the notifier that hold entry e.
BucketsHolding(e) == {b \in DOMAIN main.buckets : e \in Range(main.buckets[b])}

\* C21: once the notifier has run, every change-log entry of the crawl is in
\* exactly one of its four buckets, no entry is in both the price and the
\* availability bucket, and an update whose changed_fields has price_incl_tax
\* (with or without availability) is in the price bucket.
C21_ExactlyOneBucket ==
    main.notified =>
        /\ \A i \in 1..Len(Qualifying) :
                /\ Cardinality(BucketsHolding(Qualifying[i])) = 1
                /\ (/\ Qualifying[i].change_type = "updated"
                    /\ "price_incl_tax" \in DOMAIN Qualifying[i].changed_fields)
                    => BucketsHolding(Qualifying[i]) = {"price_changes"}
        /\ Len(main.buckets.new_books) + Len(main.buckets.price_changes)
            + Len(main.buckets.availability_changes)
            + Len(main.buckets.other_changes) = Len(Qualifying)
        /\ Range(main.buckets.price_changes)
            \cap Range(main.buckets.availability_changes) = {}

\* An update that changed both the price and the availability was bucketed.
C21_Witness ==
    /\ main.notified
    /\ \E i \in 1..Len(Qualifying) :
        /\ Qualifying[i].change_type = "updated"
        /\ {"price_incl_tax", "availability"} \subseteq DOMAIN Qualifying[i].changed_fields
        /\ BucketsHolding(Qualifying[i]) = {"price_changes"}

\* C22: a notification dispatch never raises to the run: no step that
\* dispatches a grouped mail or the summary mail ends the run with an error,
\* and a report is persisted once the grouped mails have been dispatched.
C22_DispatchNeverRaises ==
    [][main.pc \in {"group_email", "summary"} =>
            /\ main'.pc # "raised"
            /\ main.pc = "group_email" => Len(reports') = Len(reports) + 1]_vars

\* The urls an earlier run recorded as processed in its session.
PreviouslyVisited ==
    {session_log[i].url : i \in {j \in 1..Len(session_log) :
                                    session_log[j].session_id = PriorSession}}

\* C23: a run started with resume = true has loaded the urls an earlier run
\* recorded in session_log into its visited set once it is initialised, and
\* fetches and processes none of them: each task on such a url is skipped.
C23_ResumeSkipsVisited ==
    env.resume =>
        /\ main.pc # "init" => PreviouslyVisited \subseteq scraped_links
        /\ \A s \in Slots :
                UrlOf(s) \in PreviouslyVisited
                    => \/ item[s].pc = "idle"
                       \/ item[s].pc = "done" /\ item[s].why = "skipped"

\* C24: a successful response with an empty body counts as a failed attempt
\* of the fetcher: a call for a page whose body is empty is retried like a
\* timeout, so it returns only when all attempts are used, and returns None.
C24_EmptyBodyRetried ==
    (fetch.pc = "returned" /\ fetch.body \in Bodies /\ Html[fetch.body].text = "")
        => /\ Len(fetch.calls) = retries
           /\ fetch.ret = None

\* The step is one of request r.
Handled(r) == request'[r] # request[r]

\* The stored keys whose value is the text h.
StoredUnder(h) == {api_keys[i] : i \in {j \in 1..Len(api_keys) : api_keys[j].key = h}}

\* The header texts that are not in UUID format.
NotUuid == {"k_short", "k_word"}

\* The request was refused by validate_api_key.
Rejected(q) == q.pc = "responded" /\ ~q.accepted

\* C25: validate_api_key refuses a request without a key with 401, one whose
\* key is not in UUID format with 403, one whose key is not stored or is
\* stored inactive with 403, and accepts only a stored active key; a step
\* that does not accept leaves api_keys as it is, and the accepting step
\* writes last_used of the accepted key and nothing else.
C25_KeyDecision ==
    /\ [](\A r \in Requests :
            /\ Rejected(request[r]) =>
                /\ request[r].status_code \in {401, 403}
                /\ request[r].status_code = 401 <=> request[r].api_key \in {None, ""}
            /\ request[r].api_key \in NotUuid
                => request[r].pc = "responded" /\ request[r].status_code = 403
            /\ request[r].accepted =>
                /\ request[r].api_key \notin {None, ""} \cup NotUuid
                /\ request[r].key_info # <<>>
                /\ request[r].key_info[1].key = request[r].api_key
                /\ request[r].key_info[1].is_active)
    /\ [][\A r \in Requests :
            /\ (Handled(r) /\ request[r].pc = "idle" /\ request'[r].pc = "get_api_key")
                => IF StoredUnder(request'[r].api_key) = {}
                   THEN request'[r].key_info = <<>>
                   ELSE /\ request'[r].key_info # <<>>
                        /\ request'[r].key_info[1] \in StoredUnder(request'[r].api_key)
            /\ (Handled(r) /\ request[r].pc = "get_api_key")
                => IF request[r].key_info = <<>>
                   THEN Rejected(request'[r])
                   ELSE IF ~request[r].key_info[1].is_active
                   THEN Rejected(request'[r])
                   ELSE /\ request'[r].accepted
                        /\ \A i \in 1..Len(api_keys) :
                            IF api_keys[i]._id = request[r].key_info[1]._id
                            THEN api_keys'[i] = [api_keys[i] EXCEPT !.last_used = <<clock>>]
                            ELSE api_keys'[i] = api_keys[i]
            /\ (Handled(r) /\ ~request'[r].accepted) => api_keys' = api_keys]_vars

\* One request was refused for the deactivated key, the other was accepted
\* and last_used of its key is written.
C25_Witness ==
    /\ Rejected(request["r1"])
    /\ request["r1"].api_key = "k_off"
    /\ request["r1"].status_code = 403
    /\ request["r2"].accepted
    /\ request["r2"].api_key = "k_read"
    /\ api_keys[2].last_used # <<>>

\* C26: an update that an admin key sends for an existing key is answered 200
\* with the key as updated, and 404 only when no key has the target value.
C26_UpdateSucceeds ==
    \A r \in Requests :
        (/\ request[r].pc = "responded"
         /\ request[r].accepted
         /\ "admin" \in request[r].key_info[1].scopes)
            => IF StoredUnder(request[r].target_api) = {}
               THEN request[r].status_code = 404
               ELSE /\ request[r].status_code = 200
                    /\ \A f \in DOMAIN request[r].updates :
                            request[r].body[1][f] = request[r].updates[f]

\* seq' is seq with one element appended.
OneAppended(old, new) == Len(new) = Len(old) + 1 /\ SubSeq(new, 1, Len(old)) = old

\* C27: a processing that is classified created or updated goes once through
\* four steps and each step has one effect: the record is written to books
\* (appended on created, replaced in place on updated), one change-log entry
\* with the record's id is appended, the url is added to scraped_links with
\* one session_log entry of this session and url appended, and then the
\* classification is returned; no other path returns a classification.
C27_EffectsOnceEach ==
    [][\A s \in Slots :
        /\ (Stepped(s) /\ item'[s].pc = "write") =>
            /\ item[s].pc = "find_one"
            /\ item'[s].kind \in {"created", "updated"}
            /\ IF item'[s].kind = "created"
               THEN /\ OneAppended(books, books')
                    /\ books'[Len(books')].url = UrlOf(s)
                    /\ books'[Len(books')]._id = item'[s].book_id
               ELSE /\ Len(books') = Len(books)
                    /\ \A i \in 1..Len(books) :
                        IF books[i]._id = item'[s].book_id
                        THEN /\ books'[i] # books[i]
                             /\ books'[i]._id = books[i]._id
                             /\ books[i].url = UrlOf(s) /\ books'[i].url = UrlOf(s)
                        ELSE books'[i] = books[i]
                    /\ \E i \in 1..Len(books) : books[i]._id = item'[s].book_id
            /\ UNCHANGED <<change_log, session_log, scraped_links>>
        /\ (Stepped(s) /\ item[s].pc = "write") =>
            /\ item'[s].pc = "change_log"
            /\ OneAppended(change_log, change_log')
            /\ change_log'[Len(change_log')].book_id = item[s].book_id
            /\ change_log'[Len(change_log')].change_type =
                    (IF item[s].kind = "created" THEN "added" ELSE "updated")
            /\ UNCHANGED <<books, session_log, scraped_links>>
        /\ (Stepped(s) /\ item[s].pc = "change_log") =>
            /\ item'[s].pc = "session_log"
            /\ scraped_links' = scraped_links \cup {UrlOf(s)}
            /\ OneAppended(session_log, session_log')
            /\ session_log'[Len(session_log')].session_id = session_id
            /\ session_log'[Len(session_log')].url = UrlOf(s)
            /\ UNCHANGED <<books, change_log>>
        /\ (Stepped(s) /\ item[s].pc = "session_log") =>
            /\ item'[s].pc = "done"
            /\ item'[s].result = item[s].kind
            /\ UNCHANGED <<books, change_log, session_log, scraped_links>>
        /\ (Stepped(s) /\ item'[s].pc = "done"
                /\ item'[s].result \in {"created", "updated"}) =>
            item[s].pc = "session_log"
        /\ (Stepped(s) /\ item'[s].pc = "change_log") => item[s].pc = "write"
        /\ (Stepped(s) /\ item'[s].pc = "session_log") => item[s].pc = "change_log"]_vars

\* One item of the run was classified created and another updated.
C27_Witness ==
    /\ \E s \in Slots : item[s].pc = "done" /\ item[s].result = "created"
    /\ \E s \in Slots : item[s].pc = "done" /\ item[s].result = "updated"
    /\ \E i \in 1..Len(session_log) : session_log[i].session_id = session_id

\* The fields of a parsed record, and the fields only a stored record has.
ParsedFields == {"url", "title", "price_incl_tax", "availability"}
StoredOnlyFields == {"content_hash", "raw_html", "first_seen", "last_updated"}

\* f -> (old[f], new[f]) over the parsed fields present in old with another value.
Differing(old, new) ==
    [f \in {f \in ParsedFields \cap DOMAIN old : old[f] # new[f]} |-> <<old[f], new[f]>>]

\* The task on the stored url has a body with another hash that parses.
Diffed(it) ==
    /\ it.pc = "find_one"
    /\ it.existing # <<>>
    /\ it.existing[1].content_hash # <<"sha256", it.html>>
    /\ Html[it.html].wellformed

\* C28: the changed_fields computed for a stored record old and the parsed
\* record new is f -> (old[f], new[f]) over exactly the parsed fields that
\* old has with another value: a field old lacks, a field with equal values
\* and the fields only the stored record has are not in it.
C28_ChangedFieldsExact ==
    [][(Diffed(item[Detected]) /\ item'[Detected] # item[Detected]) =>
        LET old == item[Detected].existing[1]
            new == [url |-> UrlOf(Detected), title |-> Html[item[Detected].html].title,
                    price_incl_tax |-> Html[item[Detected].html].price_incl_tax,
                    availability |-> Html[item[Detected].html].availability]
        IN  IF DOMAIN Differing(old, new) = {}
            THEN item'[Detected].pc = "done" /\ item'[Detected].why = "no_diff"
            ELSE /\ item'[Detected].pc = "write"
                 /\ item'[Detected].changed = Differing(old, new)
                 /\ DOMAIN item'[Detected].changed \cap StoredOnlyFields = {}
                 /\ DOMAIN item'[Detected].changed \subseteq DOMAIN old]_vars

\* The stored record lacks availability, the parsed record has another price:
\* price_incl_tax alone is reported.
C28_Witness ==
    /\ item[Detected].pc = "write"
    /\ "availability" \notin DOMAIN item[Detected].existing[1]
    /\ item[Detected].changed = [f \in {"price_incl_tax"} |-> <<10, 12>>]

\* C29: when the stored record has another content hash than the fetched
\* body, the body parses and every parsed field equals the stored one, the
\* task returns no classification and leaves books (so the stored
\* content_hash and raw_html), change_log, session_log and scraped_links as
\* they are.
C29_MarkupChangeWritesNothing ==
    [][\A s \in Slots :
        (/\ Stepped(s)
         /\ Diffed(item[s])
         /\ item[s].existing[1].url = UrlOf(s)
         /\ item[s].existing[1].title = Html[item[s].html].title
         /\ item[s].existing[1].price_incl_tax = Html[item[s].html].price_incl_tax
         /\ item[s].existing[1].availability = Html[item[s].html].availability)
            => /\ item'[s].pc = "done"
               /\ item'[s].result = None
               /\ item'[s].why = "no_diff"
               /\ UNCHANGED <<books, change_log, session_log, scraped_links>>]_vars

\* A task found only the markup of a stored page changed: it is done without
\* a classification, the record still holds the old body and hash, and the
\* url is not in scraped_links.
C29_Witness ==
    \E s \in Slots :
        /\ item[s].pc = "done"
        /\ item[s].why = "no_diff"
        /\ site[UrlOf(s)] = "b6"
        /\ UrlOf(s) \notin scraped_links
        /\ \E i \in 1..Len(books) :
            /\ books[i].url = UrlOf(s)
            /\ books[i].raw_html = PriorBody
            /\ books[i].content_hash = <<"sha256", PriorBody>>

\* Every attempt made so far has failed.
AllFailed == \A i \in 1..Len(fetch.calls) : fetch.calls[i] # "ok"

\* C30: the fetcher waits 2^(k-1) time units after failed attempt k for
\* k = 1, 2 (1, then 2), one wait per failed attempt that is not the last,
\* and does not wait after the third failed attempt.
C30_BackoffDoubles ==
    /\ \A k \in 1..Len(fetch.delays) : fetch.delays[k] = 2 ^ (k - 1)
    /\ Len(fetch.delays) <= 2
    /\ fetch.pc = "sleep" => AllFailed /\ Len(fetch.delays) = Len(fetch.calls)
    /\ fetch.pc = "call" => Len(fetch.delays) = Len(fetch.calls)
    /\ fetch.pc = "returned" =>
        IF AllFailed
        THEN Len(fetch.calls) = 3 /\ fetch.delays = <<1, 2>>
        ELSE Len(fetch.delays) = Len(fetch.calls) - 1

\* Three attempts failed: the fetcher waited 1, then 2, and returned None
\* without a third wait.
C30_Witness ==
    /\ fetch.pc = "returned"
    /\ fetch.ret = None
    /\ Len(fetch.calls) = 3
    /\ fetch.delays = <<1, 2>>

\* The buckets of the run's notification that hold a change.
NonEmptyBuckets == {b \in DOMAIN NoBuckets : main.buckets[b] # <<>>}

\* C31: a report's notification hands at most one message per non-empty
\* bucket to send_email_alert and none for an empty bucket, and the summary
\* message in addition, once the report is persisted: the calls made never
\* exceed the non-empty buckets and the summary, and at the end of a run
\* that notified, the report is persisted and exactly these calls were made.
C31_GroupedThenSummary ==
    /\ alert.calls <= Cardinality(NonEmptyBuckets) + 1
    /\ (main.notified /\ RunEnded) =>
            /\ Len(reports) = 1
            /\ alert.calls = Cardinality(NonEmptyBuckets) + 1

\* The entries of session_log an earlier session left.
EarlierActivity ==
    {i \in 1..Len(session_log) : session_log[i].session_id # session_id}

\* C32: on a run started with resume = false the session_log is cleared
\* before any item is processed: once an item task has started, and when
\* the run has ended, session_log holds only entries of this run's session.
C32_FreshRunClearsSessionLog ==
    (env.resume = FALSE /\ ((\E s \in Slots : item[s].pc # "idle") \/ RunEnded))
        => EarlierActivity = {}

\* The item tasks of the run that returned the classification r.
Classified(r) == {s \in Slots : item[s].pc = "done" /\ item[s].result = r}

\* C33: the counts generate_daily_report reads for the report of a run are
\* the number of items the run classified created (new_books) and the
\* number it classified updated (updated_books); an item the run only
\* updated is not counted in new_books.
C33_ReportCountsClassifications ==
    main.pc \in {"notify", "group_email", "summary"} =>
        /\ main.new_books = Cardinality(Classified("created"))
        /\ main.updated_books = Cardinality(Classified("updated"))

\* The change-log entries this run appended for the record of url u.
AppendedFor(u) ==
    {i \in 1..Len(change_log) :
        /\ change_log[i].timestamp >= main.start_time
        /\ main.pc # "init"
        /\ \E j \in 1..Len(books) :
                books[j]._id = change_log[i].book_id /\ books[j].url = u}

\* C34: under any interleaving of the item tasks of a run, at most one
\* change-log entry is appended per item url; two concurrent tasks that
\* reach the same stored url with changed content write one 'updated' entry.
C34_OneEntryPerUrl ==
    \A u \in URLs : Cardinality(AppendedFor(u)) <= 1

\* C35: the pagination traversal of a category fetches each listing page at
\* most once, also when a next-page link points back to a page of the
\* category already visited: no listing page occurs twice among the pages a
\* category task has requested.
C35_EachListingPageOnce ==
    \A c \in category_links :
        \A i, j \in 1..Len(cat[c].pages) :
            cat[c].pages[i] = cat[c].pages[j] => i = j

\* The urls with a session_log entry of this run's session.
LoggedThisSession ==
    {session_log[i].url : i \in {j \in 1..Len(session_log) :
                                    session_log[j].session_id = session_id}}

\* The task of slot s took the created or the updated branch.
TookChangeBranch(s) ==
    \/ item[s].kind \in {"created", "updated"}
    \/ item[s].result \in {"created", "updated"}

\* C36: in every state of a run, a url with a session_log entry of this
\* session is in scraped_links, and a url in scraped_links is one a task of
\* this run classified created or updated; a step adds a url to
\* scraped_links only for a task in one of these two branches, never for a
\* task that ends without a classification (unchanged, fetch or parse
\* failure, skipped); and a task started on a url already in scraped_links
\* returns at once, with no fetch and no access to the store.
C36_VisitedSetExact ==
    /\ [](/\ LoggedThisSession \subseteq scraped_links
          /\ \A u \in scraped_links : \E s \in Slots : UrlOf(s) = u /\ TookChangeBranch(s))
    /\ [][/\ scraped_links' # scraped_links =>
                \E s \in Slots :
                    /\ item[s].pc = "change_log"
                    /\ item[s].kind \in {"created", "updated"}
                    /\ scraped_links' = scraped_links \cup {UrlOf(s)}
          /\ \A s \in Slots :
                (item[s].pc # "done" /\ item'[s].pc = "done" /\ item'[s].result = None)
                    => scraped_links' = scraped_links
          /\ \A s \in Slots :
                (item[s].pc = "idle" /\ item'[s].pc # "idle" /\ UrlOf(s) \in scraped_links)
                    => /\ item'[s].pc = "done" /\ item'[s].why = "skipped"
                       /\ item'[s].result = None
                       /\ books' = books /\ change_log' = change_log
                       /\ session_log' = session_log
                       /\ failed_fetches' = failed_fetches]_vars

C36_Witness ==
    /\ \E s \in Slots : /\ item[s].pc = "done" /\ item[s].why = "skipped"
                        /\ UrlOf(s) \in LoggedThisSession
    /\ \E s \in Slots : item[s].pc = "done" /\ item[s].why = "no_diff"

\* C37: over the calls of send_email_alert a process makes one after
\* another, at most 5 return True; MAX_EMAILS never goes below 0 and is 5
\* less the number of successful sends; a step changes it only by taking 1
\* off when a send succeeds; and a call made when it is 0, or with the
\* recipient None, returns False without an SMTP attempt.
C37_QuotaBoundsDelivery ==
    /\ [](/\ alert.sent <= 5
          /\ MAX_EMAILS >= 0
          /\ MAX_EMAILS = 5 - alert.sent)
    /\ [][/\ MAX_EMAILS' # MAX_EMAILS =>
                /\ MAX_EMAILS' = MAX_EMAILS - 1
                /\ alert.pc = "send" /\ alert'.pc = "idle"
                /\ alert'.ret = <<TRUE>>
          /\ (alert'.calls = alert.calls + 1
                /\ (MAX_EMAILS = 0 \/ alert'.recipient = None)) =>
                /\ alert'.pc = "idle"
                /\ alert'.ret = <<FALSE>>
                /\ alert'.attempts = 0
                /\ MAX_EMAILS' = MAX_EMAILS]_vars

C37_Witness ==
    /\ alert.sent = 5 /\ MAX_EMAILS = 0
    /\ alert.calls > 5 /\ alert.pc = "idle"
    /\ alert.recipient # None /\ alert.ret = <<FALSE>> /\ alert.attempts = 0

\* The keys of a LimitedDict, oldest first.
Stored == KeysOf(ld.items)

\* C38: a LimitedDict with max_size = n > 0 holds at most n entries after
\* any sequence of assignments; an assignment of a new key to a full one
\* evicts exactly the oldest-inserted key and keeps the newer keys in their
\* order with the new key last; any other assignment evicts nothing; with
\* max_size = 0 no entry is ever evicted.
C38_FifoEviction ==
    /\ [](/\ ld.max_size > 0 => Len(ld.items) <= ld.max_size
          /\ \A i, j \in 1..Len(Stored) : Stored[i] = Stored[j] => i = j)
    /\ [][LET key == ld'.key
              old == Stored
              new == KeysOf(ld'.items)
          IN  IF key \in Range(old) THEN new = old
              ELSE IF ld.max_size > 0 /\ Len(old) = ld.max_size
              THEN new = Tail(old) \o <<key>>
              ELSE new = old \o <<key>>]_vars

C38_Witness ==
    /\ ld.max_size = 2
    /\ Stored = <<"c", "a">>
    /\ ld.key = "a" /\ ld.popped = "b"

====
